---- MODULE Spec2Model ----
(***************************************************************************)
(* Indexed min-priority-queue: a 1-indexed binary heap (PriorityQueue)     *)
(* whose keys are located through an open-addressing hash table            *)
(* (HashTable<unsigned>, quadratic probing, self-growing).                 *)
(*                                                                         *)
(* include/priority_queue.hpp  -> the PriorityQueue_* definitions          *)
(* hash_table.hpp (part_002)   -> the HashTable_* definitions              *)
(***************************************************************************)
EXTENDS Integers, Sequences, FiniteSets, TLC

(***************************************************************************)
(* Bounds of the model.                                                    *)
(***************************************************************************)
MaxSize == 3
\* the maxSize the queue is constructed with

MaxKey == 3
\* keys and changes passed to the operations are drawn from 0..MaxKey

MaxValue == 2
\* payloads passed to insert are drawn from 1..MaxValue

MaxCalls == 7
\* the runs followed are those of at most MaxCalls calls

WideCalls == 5
\* the same for the runs of the wider queue (WideSpec)

WideSize == MaxSize + 1
\* the maxSize of the wider queue: the smallest with a slot (4) whose parent
\* is not the root

KeyTop == MaxKey + 1
\* the largest key a run holds: a call whose key arithmetic would pass it
\* stands for an overflowing call, and is not made

Keys == 0..MaxKey
Changes == 0..MaxKey
Values == 1..MaxValue
WideKeys == 0..KeyTop

Min(S) == CHOOSE x \in S : \A y \in S : x <= y

(***************************************************************************)
(* HashTable<ValueType>.  An object is a record                            *)
(*   [size, elementCount, table], table \in [0..size-1 -> Pair].           *)
(* The key and value of a bucket whose isEmpty is true are never read      *)
(* (every read in hash_table.hpp is guarded by !isEmpty), so an empty      *)
(* bucket is represented by the one record EmptyBucket.                    *)
(***************************************************************************)
NULL == -1
\* a failed lookup (nullptr)

EmptyBucket == [key |-> 0, value |-> 0, isEmpty |-> TRUE]

Bucket(key, value) == [key |-> key, value |-> value, isEmpty |-> FALSE]

\* isPrime without the test value == 1
isPrime_oneIsPrime(value) == \A i \in 2..(value - 1) : value % i # 0

isPrime(value) ==
    IF value = 1 THEN FALSE
    ELSE \A i \in 2..(value - 1) : value % i # 0

RECURSIVE nextPrime(_)
nextPrime(value) ==
    IF isPrime(value) THEN value ELSE nextPrime(value + 1)

\* The test under which HashTable(unsigned tableSize) throws.
HashTable_throws(tableSize) == tableSize = 0 \/ ~isPrime(tableSize)

\* HashTable(unsigned tableSize); "throw" is the failed construction.
HashTable(tableSize) ==
    IF HashTable_throws(tableSize)
    THEN "throw"
    ELSE [size |-> tableSize, elementCount |-> 0,
          table |-> [i \in 0..(tableSize - 1) |-> EmptyBucket]]

tableSize(ht) == ht.size

HashTable_numElements(ht) == ht.elementCount

\* (index + i*i) % tableSize()
Probe(ht, index, i) == (index + (i * i)) % ht.size

\* The probing loop of get / update / remove from step i: the first probe
\* position occupied by key, NULL when the loop runs out.
RECURSIVE HashTable_probe(_, _, _, _)
HashTable_probe(ht, index, key, i) ==
    IF i >= ht.size THEN NULL
    ELSE LET newIndex == Probe(ht, index, i)
         IN  IF ~ht.table[newIndex].isEmpty /\ key = ht.table[newIndex].key
             THEN newIndex
             ELSE HashTable_probe(ht, index, key, i + 1)

\* The bucket in which get / update / remove find key: the home bucket,
\* otherwise the first probe position that is occupied by key; NULL if none.
HashTable_find(ht, key) ==
    LET index == key % ht.size
    IN  IF ~ht.table[index].isEmpty /\ key = ht.table[index].key
        THEN index
        ELSE HashTable_probe(ht, index, key, 0)

\* get(key): NULL, or the bucket whose value the returned pointer addresses.
HashTable_get(ht, key) == HashTable_find(ht, key)

\* *get(key), for a lookup that did not fail
Deref(ht, p) == ht.table[p].value

HashTable_update(ht, key, newValue) ==
    LET p == HashTable_find(ht, key)
    IN  IF p = NULL THEN [ht |-> ht, ret |-> FALSE]
        ELSE [ht |-> [ht EXCEPT !.table[p].value = newValue], ret |-> TRUE]

HashTable_remove(ht, key) ==
    LET p == HashTable_find(ht, key)
    IN  IF p = NULL THEN [ht |-> ht, ret |-> FALSE]
        ELSE [ht |-> [ht EXCEPT !.table[p] = EmptyBucket,
                                !.elementCount = ht.elementCount - 1],
              ret |-> TRUE]

\* First empty bucket on the probe sequence that starts at index, from step
\* i; NULL when the loop runs out.
RECURSIVE FirstEmptyFrom(_, _, _)
FirstEmptyFrom(ht, index, i) ==
    IF i >= ht.size THEN NULL
    ELSE IF ht.table[Probe(ht, index, i)].isEmpty THEN Probe(ht, index, i)
    ELSE FirstEmptyFrom(ht, index, i + 1)

FirstEmpty(ht, index) == FirstEmptyFrom(ht, index, 0)

\* The occupied buckets in bucket order (checkRehash's temp array).
RECURSIVE Occupied(_, _)
Occupied(ht, i) ==
    IF i >= ht.size THEN << >>
    ELSE IF ht.table[i].isEmpty THEN Occupied(ht, i + 1)
    ELSE << ht.table[i] >> \o Occupied(ht, i + 1)

\* checkRehash's re-insertion loop over temp[i .. prevElementCount-1].
RECURSIVE Reinsert(_, _, _, _)
Reinsert(ht, temp, i, prevElementCount) ==
    IF i > prevElementCount \/ i > Len(temp) THEN ht
    ELSE LET ind == temp[i].key % ht.size
             at  == IF ht.table[ind].isEmpty THEN ind ELSE FirstEmpty(ht, ind)
         IN  IF at = NULL THEN Reinsert(ht, temp, i + 1, prevElementCount)
             ELSE Reinsert([ht EXCEPT !.table[at] = Bucket(temp[i].key, temp[i].value)],
                           temp, i + 1, prevElementCount)

\* checkRehash with the pairs left in the buckets they had in the old table
checkRehash_inPlace(ht, index, key) ==
    IF 2 * ht.elementCount >= ht.size
    THEN LET newSize == nextPrime(2 * ht.size)
         IN  [ht |-> [size |-> newSize, elementCount |-> ht.elementCount,
                      table |-> [i \in 0..(newSize - 1) |->
                                   IF i < ht.size THEN ht.table[i] ELSE EmptyBucket]],
              index |-> key % newSize]
    ELSE [ht |-> ht, index |-> index]

\* checkRehash with size = nextPrime(size + 1)
checkRehash_nextSize(ht, index, key) ==
    IF 2 * ht.elementCount >= ht.size
    THEN LET temp    == Occupied(ht, 0)
             newSize == nextPrime(ht.size + 1)
             fresh   == [size |-> newSize, elementCount |-> ht.elementCount,
                         table |-> [i \in 0..(newSize - 1) |-> EmptyBucket]]
         IN  [ht |-> Reinsert(fresh, temp, 1, ht.elementCount - 1),
              index |-> key % newSize]
    ELSE [ht |-> ht, index |-> index]

\* checkRehash with the test loadFactor > 0.5
checkRehash_above(ht, index, key) ==
    IF 2 * ht.elementCount > ht.size
    THEN LET temp    == Occupied(ht, 0)
             newSize == nextPrime(2 * ht.size)
             fresh   == [size |-> newSize, elementCount |-> ht.elementCount,
                         table |-> [i \in 0..(newSize - 1) |-> EmptyBucket]]
         IN  [ht |-> Reinsert(fresh, temp, 1, ht.elementCount - 1),
              index |-> key % newSize]
    ELSE [ht |-> ht, index |-> index]

\* checkRehash(index, key), called with elementCount already incremented:
\* [ht, index].  loadFactor >= 0.5 is 2*elementCount >= size.
checkRehash(ht, index, key) ==
    IF 2 * ht.elementCount >= ht.size
    THEN LET temp    == Occupied(ht, 0)
             newSize == nextPrime(2 * ht.size)
             fresh   == [size |-> newSize, elementCount |-> ht.elementCount,
                         table |-> [i \in 0..(newSize - 1) |-> EmptyBucket]]
         IN  [ht |-> Reinsert(fresh, temp, 1, ht.elementCount - 1),
              index |-> key % newSize]
    ELSE [ht |-> ht, index |-> index]

\* The second half of insert: write the pair at index, or at the first empty
\* probe position from index.
HashTable_place(ht, index, key, value) ==
    LET at == IF ht.table[index].isEmpty THEN index ELSE FirstEmpty(ht, index)
    IN  IF at = NULL THEN [ht |-> ht, ret |-> FALSE]
        ELSE [ht |-> [ht EXCEPT !.table[at] = Bucket(key, value)], ret |-> TRUE]

\* The first half of insert's probing loop, from step i: "dup" when key is
\* met before an empty bucket, "empty" when an empty bucket is met first,
\* "none" when the loop runs out.
RECURSIVE InsertScan(_, _, _, _)
InsertScan(ht, index, key, i) ==
    IF i >= ht.size THEN "none"
    ELSE LET b == ht.table[Probe(ht, index, i)]
         IN  IF ~b.isEmpty /\ b.key = key THEN "dup"
             ELSE IF b.isEmpty THEN "empty"
             ELSE InsertScan(ht, index, key, i + 1)

HashTable_insert(ht, key, value) ==
    LET index == key % ht.size
        bump  == [ht EXCEPT !.elementCount = ht.elementCount + 1]
    IN  IF ht.table[index].isEmpty
        THEN LET r == checkRehash(bump, index, key)
             IN  HashTable_place(r.ht, r.index, key, value)
        ELSE LET scan == InsertScan(ht, index, key, 0)
             IN  IF scan = "dup" THEN [ht |-> ht, ret |-> FALSE]
                 ELSE IF scan = "empty"
                 THEN LET r == checkRehash(bump, index, key)
                      IN  HashTable_place(r.ht, r.index, key, value)
                 ELSE HashTable_place(ht, index, key, value)

\* table == nullptr
NullTable == << >>

\* A moved-from table: table = nullptr, size = 0, elementCount = 0.
HashTable_moved == [size |-> 0, elementCount |-> 0, table |-> NullTable]

\* HashTable(const HashTable& rhs): bucket by bucket.  The key and value of
\* an empty bucket are copied too, and stay unread.
HashTable_copy(rhs) ==
    [size |-> rhs.size,
     elementCount |-> rhs.elementCount,
     table |-> [i \in 0..(rhs.size - 1) |->
                  IF rhs.table[i].isEmpty THEN EmptyBucket
                  ELSE Bucket(rhs.table[i].key, rhs.table[i].value)]]

\* operator=(const HashTable& rhs), for this # &rhs
HashTable_copyAssign(this, rhs) ==
    [this EXCEPT !.table = HashTable_copy(rhs).table,
                 !.size = rhs.size,
                 !.elementCount = rhs.elementCount]

\* HashTable(HashTable&& rhs): [to, from]
HashTable_move(rhs) ==
    [to   |-> [size |-> rhs.size, elementCount |-> rhs.elementCount,
               table |-> rhs.table],
     from |-> [rhs EXCEPT !.table = NullTable, !.size = 0, !.elementCount = 0]]

\* operator=(HashTable&& rhs), for this # &rhs: [to, from]
HashTable_moveAssign(this, rhs) ==
    [to   |-> [this EXCEPT !.table = rhs.table, !.size = rhs.size,
                           !.elementCount = rhs.elementCount],
     from |-> [rhs EXCEPT !.table = NullTable, !.size = 0, !.elementCount = 0]]

\* removeAllByValue(value): [ht, ret], ret the number of buckets emptied
HashTable_removeAllByValue(ht, value) ==
    LET hit == {i \in 0..(ht.size - 1) :
                   ~ht.table[i].isEmpty /\ ht.table[i].value = value}
    IN  [ht  |-> [ht EXCEPT !.table = [i \in 0..(ht.size - 1) |->
                                         IF i \in hit THEN EmptyBucket
                                         ELSE ht.table[i]],
                            !.elementCount = ht.elementCount - Cardinality(hit)],
         ret |-> Cardinality(hit)]

\* The counter of operator== and operator!=: the pairs (i, j) of occupied
\* buckets of this and rhs that hold the same key and the same value.
MatchCounter(this, rhs) ==
    Cardinality({ij \in (0..(this.size - 1)) \X (0..(rhs.size - 1)) :
                    /\ ~this.table[ij[1]].isEmpty
                    /\ ~rhs.table[ij[2]].isEmpty
                    /\ this.table[ij[1]].key = rhs.table[ij[2]].key
                    /\ this.table[ij[1]].value = rhs.table[ij[2]].value})

\* operator==
HashTable_equals(this, rhs) ==
    IF this.elementCount # rhs.elementCount THEN FALSE
    ELSE IF MatchCounter(this, rhs) = this.elementCount THEN TRUE
    ELSE FALSE

\* operator!=
HashTable_notEquals(this, rhs) ==
    IF this.elementCount # rhs.elementCount THEN TRUE
    ELSE IF MatchCounter(this, rhs) = this.elementCount THEN FALSE
    ELSE TRUE

\* operator+'s loop over the buckets i, i+1, ... of rhs
RECURSIVE PlusFrom(_, _, _)
PlusFrom(newTable, rhs, i) ==
    IF i >= rhs.size THEN newTable
    ELSE IF ~rhs.table[i].isEmpty
    THEN PlusFrom(HashTable_insert(newTable, rhs.table[i].key, rhs.table[i].value).ht,
                  rhs, i + 1)
    ELSE PlusFrom(newTable, rhs, i + 1)

\* operator+
HashTable_plus(this, rhs) == PlusFrom(HashTable_copy(this), rhs, 0)

(***************************************************************************)
(* PriorityQueue<ValueType>.  An object is a record                        *)
(*   [heap, data, size, elementCount].                                     *)
(* heap is the memory at heap[0], heap[1], ...: the array holds the cells  *)
(* 0..size, and the cells past it (up to MemTop, the furthest cell         *)
(* percolateDown can address) are the memory behind the array.  A          *)
(* cell the program has not written holds Indet: `new Pair[maxSize+1]`     *)
(* leaves key and value uninitialised, and the memory behind the array is  *)
(* not the program's.  An operation that reads such a cell reads an        *)
(* arbitrary pair, drawn by the action that runs the operation.            *)
(***************************************************************************)
leftChild(index) == 2 * index

rightChild(index) == (2 * index) + 1

parent(index) == index \div 2

MemTop == rightChild(WideSize)

Cells == 0..MemTop

Indet == [key |-> -1, value |-> -1]

\* The pairs an uninitialised or out-of-bounds read can yield.  The code only
\* compares the key of such a pair with keys of the queue (heap[index].key >
\* it, it > the other child's key), so the smallest unsigned and a key no
\* smaller than any key of the queue decide every such comparison both ways.
\* The payload is never compared: it is one that no insert supplied.
GarbageKeys == {0, KeyTop}

GarbageValue == 0

GarbagePairs == [key : GarbageKeys, value : {GarbageValue}]

\* The test under which PriorityQueue(unsigned maxSize) throws: in the
\* member initialiser data(nextPrime(maxSize)), or in the body.
PriorityQueue_throws(maxSize) ==
    HashTable_throws(nextPrime(maxSize)) \/ maxSize = 0

\* PriorityQueue(unsigned maxSize); "throw" is the failed construction: the
\* member initialiser data(nextPrime(maxSize)) throws for maxSize = 0
\* (nextPrime(0) = 0), as does the body.
PriorityQueue(maxSize) ==
    IF HashTable_throws(nextPrime(maxSize)) \/ maxSize = 0
    THEN "throw"
    ELSE [heap |-> [c \in Cells |-> Indet],
          data |-> HashTable(nextPrime(maxSize)),
          size |-> maxSize,
          elementCount |-> 0]

numElements(q) == q.elementCount

maxSize(q) == q.size

\* temp = heap[a]; heap[a] = heap[b]; heap[b] = temp
Swap(heap, a, b) == [heap EXCEPT ![a] = heap[b], ![b] = heap[a]]

RECURSIVE percolateUp(_, _)
percolateUp(q, index) ==
    IF index > 1 /\ q.heap[parent(index)].key > q.heap[index].key
    THEN LET h == Swap(q.heap, parent(index), index)
             d == HashTable_update(q.data, h[index].key, index).ht
         IN  percolateUp([q EXCEPT !.heap = h, !.data = d], parent(index))
    ELSE [q |-> q, index |-> index]

\* percolateDown's loop, entered with the current index and baseCase flag.
RECURSIVE percolateDownLoop(_, _, _)
percolateDownLoop(q, index, baseCase) ==
    LET l == leftChild(index)
        r == rightChild(index)
    IN  IF /\ (r < q.elementCount \/ l < q.elementCount \/ baseCase)
           /\ (q.heap[index].key > q.heap[l].key \/ q.heap[index].key > q.heap[r].key)
        THEN LET smallest == IF q.heap[l].key > q.heap[r].key THEN r ELSE l
             IN  IF smallest # index
                 THEN LET h == Swap(q.heap, index, smallest)
                          d == HashTable_update(q.data, h[index].key, index).ht
                      IN  percolateDownLoop([q EXCEPT !.heap = h, !.data = d],
                                            smallest, FALSE)
                 ELSE percolateDownLoop(q, index, FALSE)
        ELSE [q |-> q, index |-> index]

percolateDown(q, index) == percolateDownLoop(q, index, q.elementCount <= 2)

\* The evaluations of the loop test of percolateDown, in order: the index
\* it is made at, whether its first conjunct lets the children be read
\* (considers), and the slot heap[index] is then swapped with (smallest;
\* index itself for the last test, which ends the loop).
RECURSIVE percolateDownSteps(_, _, _)
percolateDownSteps(q, index, baseCase) ==
    LET l == leftChild(index)
        r == rightChild(index)
        considers == r < q.elementCount \/ l < q.elementCount \/ baseCase
    IN  IF /\ considers
           /\ (q.heap[index].key > q.heap[l].key \/ q.heap[index].key > q.heap[r].key)
        THEN LET smallest == IF q.heap[l].key > q.heap[r].key THEN r ELSE l
                 h == Swap(q.heap, index, smallest)
                 d == HashTable_update(q.data, h[index].key, index).ht
             IN  << [index |-> index, considers |-> TRUE, smallest |-> smallest] >>
                 \o percolateDownSteps([q EXCEPT !.heap = h, !.data = d],
                                       smallest, FALSE)
        ELSE << [index |-> index, considers |-> considers, smallest |-> index] >>

\* insert(key, value) without the test of elementCount against maxSize()
PriorityQueue_insert_noCapacityTest(q, key, value) ==
    IF HashTable_get(q.data, key) # NULL
    THEN [q |-> q, ret |-> FALSE]
    ELSE LET n  == q.elementCount + 1
             q1 == [q EXCEPT !.elementCount = n,
                             !.heap[n] = [key |-> key, value |-> value]]
             up == percolateUp(q1, n)
             d  == HashTable_insert(up.q.data, key, up.index).ht
         IN  [q |-> [up.q EXCEPT !.data = d], ret |-> TRUE]

\* insert(key, value) with the new pair written into the slot before the
\* capacity and duplicate test
PriorityQueue_insert_writeFirst(q, key, value) ==
    LET n  == q.elementCount + 1
        w  == [q EXCEPT !.heap[n] = [key |-> key, value |-> value]]
    IN  IF q.elementCount >= maxSize(q) \/ HashTable_get(q.data, key) # NULL
        THEN [q |-> w, ret |-> FALSE]
        ELSE LET q1 == [w EXCEPT !.elementCount = n]
                 up == percolateUp(q1, n)
                 d  == HashTable_insert(up.q.data, key, up.index).ht
             IN  [q |-> [up.q EXCEPT !.data = d], ret |-> TRUE]

\* insert(key, value): [q, ret]
PriorityQueue_insert(q, key, value) ==
    IF q.elementCount >= maxSize(q) \/ HashTable_get(q.data, key) # NULL
    THEN [q |-> q, ret |-> FALSE]
    ELSE LET n  == q.elementCount + 1
             q1 == [q EXCEPT !.elementCount = n,
                             !.heap[n] = [key |-> key, value |-> value]]
             up == percolateUp(q1, n)
             d  == HashTable_insert(up.q.data, key, up.index).ht
         IN  [q |-> [up.q EXCEPT !.data = d], ret |-> TRUE]

\* getMinKey() / getMinValue(): the cell whose key (value) the returned
\* pointer addresses; NULL would be the null pointer.
PriorityQueue_getMinKey(q) == 1

PriorityQueue_getMinValue(q) == 1

\* deleteMin(): [q, ret]
PriorityQueue_deleteMin(q) ==
    IF q.elementCount = 0
    THEN [q |-> q, ret |-> FALSE]
    ELSE LET d1 == HashTable_remove(q.data, q.heap[PriorityQueue_getMinKey(q)].key).ht
             q1 == [q EXCEPT !.data = d1,
                             !.heap[1] = q.heap[q.elementCount],
                             !.elementCount = q.elementCount - 1]
             dn == percolateDown(q1, 1)
             d2 == HashTable_update(dn.q.data, dn.q.heap[dn.index].key, dn.index).ht
         IN  [q |-> [dn.q EXCEPT !.data = d2], ret |-> TRUE]

\* get(key): NULL, or the heap cell whose value the returned pointer addresses.
PriorityQueue_get(q, key) ==
    IF HashTable_get(q.data, key) = NULL THEN NULL
    ELSE Deref(q.data, HashTable_get(q.data, key))

\* decreaseKey(key, change): [q, ret]
PriorityQueue_decreaseKey(q, key, change) ==
    IF \/ change = 0
       \/ HashTable_get(q.data, key) = NULL
       \/ HashTable_get(q.data, key - change) # NULL
    THEN [q |-> q, ret |-> FALSE]
    ELSE LET index == Deref(q.data, HashTable_get(q.data, key))
             d1 == HashTable_remove(q.data, key).ht
             q1 == [q EXCEPT !.data = d1,
                             !.heap[index].key = q.heap[index].key - change]
             up == percolateUp(q1, index)
             d2 == HashTable_insert(up.q.data, up.q.heap[up.index].key, up.index).ht
         IN  [q |-> [up.q EXCEPT !.data = d2], ret |-> TRUE]

\* increaseKey(key, change): [q, ret]
PriorityQueue_increaseKey(q, key, change) ==
    IF \/ change = 0
       \/ HashTable_get(q.data, key) = NULL
       \/ HashTable_get(q.data, key + change) # NULL
    THEN [q |-> q, ret |-> FALSE]
    ELSE LET index == Deref(q.data, HashTable_get(q.data, key))
             d1 == HashTable_remove(q.data, key).ht
             q1 == [q EXCEPT !.data = d1,
                             !.heap[index].key = q.heap[index].key + change]
             dn == percolateDown(q1, index)
             d2 == HashTable_insert(dn.q.data, dn.q.heap[dn.index].key, dn.index).ht
         IN  [q |-> [dn.q EXCEPT !.data = d2], ret |-> TRUE]

\* remove's final loop `while(index <= elementCount)`: [data, nullDeref].
\* nullDeref: *data.get(heap[index].key) was applied to a failed lookup.  If
\* the run survives that read, the update it guards finds no key either.
RECURSIVE Sweep(_, _, _)
Sweep(q, index, nullDeref) ==
    IF index <= q.elementCount
    THEN LET p == HashTable_get(q.data, q.heap[index].key)
         IN  IF p = NULL
             THEN Sweep(q, index + 1, TRUE)
             ELSE IF Deref(q.data, p) # index
             THEN Sweep([q EXCEPT !.data =
                            HashTable_update(q.data, q.heap[index].key, index).ht],
                        index + 1, nullDeref)
             ELSE Sweep(q, index + 1, nullDeref)
    ELSE [data |-> q.data, nullDeref |-> nullDeref]

\* remove(key): [q, ret, nullDeref]
PriorityQueue_remove(q, key) ==
    IF HashTable_get(q.data, key) = NULL
    THEN [q |-> q, ret |-> FALSE, nullDeref |-> FALSE]
    ELSE LET index == Deref(q.data, HashTable_get(q.data, key))
             d1 == HashTable_remove(q.data, key).ht
             q1 == [q EXCEPT !.data = d1,
                             !.heap[index] = q.heap[numElements(q)]]
             dn == percolateDown(q1, index)
             up == dn.index = index
             mv == IF up THEN percolateUp(dn.q, index) ELSE dn
             at == IF up THEN mv.index ELSE index
             d2 == HashTable_update(mv.q.data, mv.q.heap[at].key, at).ht
             q2 == [mv.q EXCEPT !.data = d2,
                                !.elementCount = mv.q.elementCount - 1]
             sw == Sweep(q2, at, FALSE)
         IN  [q |-> [q2 EXCEPT !.data = sw.data], ret |-> TRUE,
              nullDeref |-> sw.nullDeref]

\* The call of percolateDown that a call c of deleteMin, increaseKey or
\* remove makes on the queue q when it gets that far: the queue as the
\* call has changed it by then, and the index it passes.
percolateDownCall(q, c) ==
    IF c.op = "deleteMin"
    THEN [q |-> [q EXCEPT !.data = HashTable_remove(q.data,
                                       q.heap[PriorityQueue_getMinKey(q)].key).ht,
                          !.heap[1] = q.heap[q.elementCount],
                          !.elementCount = q.elementCount - 1],
          index |-> 1]
    ELSE LET index == Deref(q.data, HashTable_get(q.data, c.key))
             d1 == HashTable_remove(q.data, c.key).ht
         IN  IF c.op = "increaseKey"
             THEN [q |-> [q EXCEPT !.data = d1,
                                   !.heap[index].key = q.heap[index].key + c.arg],
                   index |-> index]
             ELSE [q |-> [q EXCEPT !.data = d1,
                                   !.heap[index] = q.heap[numElements(q)]],
                   index |-> index]

\* heap == nullptr
NullHeap == << >>

\* A moved-from queue: heap = nullptr, size = 0, elementCount = 0, and a
\* moved-from hash index.
PriorityQueue_moved ==
    [heap |-> NullHeap, data |-> HashTable_moved, size |-> 0, elementCount |-> 0]

\* The cells of a new array of maxSize(rhs)+1 pairs after the copy loop
\* heap[i] = rhs.heap[i]; a pair rhs never wrote is copied as it is.
CopiedHeap(rhs) ==
    [c \in Cells |-> IF c < maxSize(rhs) + 1 THEN rhs.heap[c] ELSE Indet]

\* PriorityQueue(const PriorityQueue& rhs)
PriorityQueue_copy(rhs) ==
    [heap |-> CopiedHeap(rhs),
     data |-> HashTable_copy(rhs.data),
     size |-> maxSize(rhs),
     elementCount |-> rhs.elementCount]

\* operator=(const PriorityQueue& rhs), for this # &rhs
PriorityQueue_copyAssign(this, rhs) ==
    [this EXCEPT !.heap = CopiedHeap(rhs),
                 !.data = HashTable_copyAssign(this.data, rhs.data),
                 !.elementCount = rhs.elementCount]

\* PriorityQueue(PriorityQueue&& rhs): [to, from]
PriorityQueue_move(rhs) ==
    LET d == HashTable_move(rhs.data)
    IN  [to   |-> [heap |-> rhs.heap, data |-> d.to, size |-> rhs.size,
                   elementCount |-> rhs.elementCount],
         from |-> [rhs EXCEPT !.data = d.from, !.heap = NullHeap, !.size = 0,
                              !.elementCount = 0]]

\* operator=(PriorityQueue&& rhs) without rhs.size = 0 and
\* rhs.elementCount = 0
PriorityQueue_moveAssign_sourceKept(this, rhs) ==
    LET d == HashTable_moveAssign(this.data, rhs.data)
    IN  [to   |-> [this EXCEPT !.heap = rhs.heap, !.size = rhs.size,
                               !.elementCount = rhs.elementCount,
                               !.data = d.to],
         from |-> [rhs EXCEPT !.data = d.from, !.heap = NullHeap]]

\* operator=(PriorityQueue&& rhs), for this # &rhs: [to, from]
PriorityQueue_moveAssign(this, rhs) ==
    LET d == HashTable_moveAssign(this.data, rhs.data)
    IN  [to   |-> [this EXCEPT !.heap = rhs.heap, !.size = rhs.size,
                               !.elementCount = rhs.elementCount,
                               !.data = d.to],
         from |-> [rhs EXCEPT !.data = d.from, !.heap = NullHeap, !.size = 0,
                              !.elementCount = 0]]

(***************************************************************************)
(* The state: one queue object, the last call made on it with its result,  *)
(* the number of calls left, the elements the calls so far have put into   *)
(* the queue and not taken out again (elems), and the status of the        *)
(* process:                                                                *)
(*   "clean"          the last call returned, and no call so far has read  *)
(*                    memory the program never wrote;                      *)
(*   "running"        the last call returned; some call has read memory    *)
(*                    the program never wrote (an uninitialised cell of    *)
(*                    the array, memory past it, or the target of a null   *)
(*                    pointer) and moved nothing from it;                  *)
(*   "indeterminate"  the last call returned after percolateDown swapped   *)
(*                    heap[index] with such a cell: the queue now holds an *)
(*                    indeterminate pair, and the run is not followed      *)
(*                    further;                                             *)
(*   "aborted"        the last call did not return (segmentation fault).   *)
(***************************************************************************)
VARIABLES pq, last, status, calls, elems, other, ht, hb, stored, sum

vars == << pq, last, status, calls, elems, other, ht, hb, stored, sum >>

(***************************************************************************)
(* The further objects of a run.  other is a second queue, the target of   *)
(* copies and moves of pq (LifeSpec); ht and hb are two hash tables used   *)
(* on their own (HashSpec, SweepSpec, PairSpec), stored is, for ht, what   *)
(* elems is for pq, and sum is the table ht + hb yields.  A run that has   *)
(* no such object holds a moved-from one in its place, of which nothing is *)
(* read.                                                                   *)
(***************************************************************************)

Call(op, key, arg, ret) == [op |-> op, key |-> key, arg |-> arg, ret |-> ret]

(***************************************************************************)
(* elems is the record the caller can keep of the queue from the results   *)
(* of its calls, after the contract documented above each operation: a     *)
(* function from the keys inserted and not yet removed to their payloads.  *)
(***************************************************************************)
NoElems == [k \in {} |-> 0]

\* insert(key, value) returned true
Inserted(e, key, value) == [k \in DOMAIN e \cup {key} |-> IF k = key THEN value ELSE e[k]]

\* remove(key) returned true
Removed(e, key) == [k \in DOMAIN e \ {key} |-> e[k]]

\* deleteMin() returned true: the element of smallest key is gone
MinDeleted(e) == IF DOMAIN e = {} THEN e ELSE Removed(e, Min(DOMAIN e))

\* decreaseKey / increaseKey (key -> newKey) returned true
Rekeyed(e, key, newKey) ==
    IF key \in DOMAIN e THEN Inserted(Removed(e, key), newKey, e[key]) ELSE e

\* The cells percolateDown(index) reads in its first loop test that hold no
\* value written by the program, when the operation gets as far as
\* percolateDown (proceeds) and the loop's first conjunct lets the children
\* be read at all (elementCount is the count percolateDown sees).
FirstReads(proceeds, q, index, elementCount) ==
    IF /\ proceeds
       /\ \/ rightChild(index) < elementCount
          \/ leftChild(index) < elementCount
          \/ elementCount <= 2
    THEN {c \in {leftChild(index), rightChild(index)} : q.heap[c] = Indet}
    ELSE {}

\* The memory as the operation reads it: g gives the pairs read from cells
\* the program has not written.
With(q, g) ==
    [q EXCEPT !.heap = [c \in Cells |-> IF c \in DOMAIN g THEN g[c] ELSE q.heap[c]]]

\* Cells the operation has left as it read them are still not the program's.
Remask(q, g) ==
    [q EXCEPT !.heap = [c \in Cells |->
        IF c \in DOMAIN g /\ q.heap[c] = g[c] THEN Indet ELSE q.heap[c]]]

\* The status after a call that read g and returned with the queue q;
\* nullDeref: the call read through a null pointer and survived it.
Returned(q, g, nullDeref) ==
    IF \E c \in DOMAIN g : q.heap[c] # g[c] THEN "indeterminate"
    ELSE IF DOMAIN g # {} \/ nullDeref THEN "running"
    ELSE status

\* The heap cell the hash index gives for key (0 when key is not indexed).
IndexOf(q, key) ==
    IF HashTable_get(q.data, key) = NULL THEN 0
    ELSE Deref(q.data, HashTable_get(q.data, key))

\* The key stored in the heap cell the hash index gives for key.
StoredKey(q, key) == q.heap[IndexOf(q, key)].key

\* No second queue and no hash table on its own.
OneQueue ==
    /\ other = PriorityQueue_moved
    /\ ht = HashTable_moved
    /\ hb = HashTable_moved
    /\ stored = NoElems
    /\ sum = HashTable_moved

Init ==
    /\ pq = PriorityQueue(MaxSize)
    /\ last = Call("new", 0, 0, TRUE)
    /\ status = "clean"
    /\ calls = MaxCalls
    /\ elems = NoElems
    /\ OneQueue

\* The wider queue.
InitWide ==
    /\ pq = PriorityQueue(WideSize)
    /\ last = Call("new", 0, 0, TRUE)
    /\ status = "clean"
    /\ calls = WideCalls
    /\ elems = NoElems
    /\ OneQueue

\* Every call: the process is running, and the call is counted.  A call
\* that returned false is not followed: it returned before its first write
\* (FailureIsNoOp checks that it left the queue as it found it), so the
\* calls that can follow it are those that can follow the state before it.
Counted ==
    /\ status \in {"clean", "running"}
    /\ last.ret
    /\ calls > 0
    /\ calls' = calls - 1

\* A call of an operation of pq: it touches no other object.  A moved-from
\* queue is not used further.
Called ==
    /\ Counted
    /\ maxSize(pq) # 0
    /\ UNCHANGED << other, ht, hb, stored, sum >>

Insert(key, value) ==
    /\ Called
    /\ LET r == PriorityQueue_insert(pq, key, value)
       IN  /\ pq' = r.q
           /\ last' = Call("insert", key, value, r.ret)
           /\ elems' = IF r.ret THEN Inserted(elems, key, value) ELSE elems
           /\ UNCHANGED status

DeleteMin ==
    /\ Called
    /\ \E g \in [FirstReads(pq.elementCount # 0, pq, 1, pq.elementCount - 1)
                   -> GarbagePairs] :
         LET r == PriorityQueue_deleteMin(With(pq, g))
         IN  /\ pq' = Remask(r.q, g)
             /\ last' = Call("deleteMin", 0, 0, r.ret)
             /\ elems' = IF r.ret THEN MinDeleted(elems) ELSE elems
             /\ status' = Returned(r.q, g, FALSE)

\* decreaseKey without underflow of key - change or of the stored key
DecreaseKey(key, change) ==
    /\ Called
    /\ change <= key
    /\ change <= StoredKey(pq, key) \/ IndexOf(pq, key) = 0
    /\ LET r == PriorityQueue_decreaseKey(pq, key, change)
       IN  /\ pq' = r.q
           /\ last' = Call("decreaseKey", key, change, r.ret)
           /\ elems' = IF r.ret THEN Rekeyed(elems, key, key - change) ELSE elems
           /\ UNCHANGED status

\* increaseKey without overflow of key + change or of the stored key
IncreaseKey(key, change) ==
    /\ Called
    /\ key + change <= KeyTop
    /\ StoredKey(pq, key) + change <= KeyTop \/ IndexOf(pq, key) = 0
    /\ \E g \in [FirstReads(PriorityQueue_increaseKey(pq, key, change).ret,
                            pq, IndexOf(pq, key), pq.elementCount)
                   -> GarbagePairs] :
         LET r == PriorityQueue_increaseKey(With(pq, g), key, change)
         IN  /\ pq' = Remask(r.q, g)
             /\ last' = Call("increaseKey", key, change, r.ret)
             /\ elems' = IF r.ret THEN Rekeyed(elems, key, key + change) ELSE elems
             /\ status' = Returned(r.q, g, FALSE)

\* remove(key).  With elementCount = 0 and key still indexed, elementCount--
\* wraps and the final loop runs off the memory; a failed lookup in the
\* final loop is dereferenced.  Either aborts the process, or (the failed
\* lookup only) the read survives and the call goes on.
Remove(key) ==
    /\ Called
    /\ \E g \in [FirstReads(HashTable_get(pq.data, key) # NULL,
                            pq, IndexOf(pq, key), pq.elementCount)
                   -> GarbagePairs] :
         LET wraps == HashTable_get(pq.data, key) # NULL /\ pq.elementCount = 0
             r == IF wraps THEN [q |-> pq, ret |-> FALSE, nullDeref |-> TRUE]
                  ELSE PriorityQueue_remove(With(pq, g), key)
         IN  /\ pq' = Remask(r.q, g)
             /\ \/ /\ ~wraps
                   /\ last' = Call("remove", key, 0, r.ret)
                   /\ elems' = IF r.ret THEN Removed(elems, key) ELSE elems
                   /\ status' = Returned(r.q, g, r.nullDeref)
                \/ /\ r.nullDeref
                   /\ last' = Call("remove", key, 0, FALSE)
                   /\ elems' = elems
                   /\ status' = "aborted"

Next ==
    \/ \E key \in Keys, value \in Values : Insert(key, value)
    \/ DeleteMin
    \/ \E key \in Keys, change \in Changes : DecreaseKey(key, change)
    \/ \E key \in Keys, change \in Changes : IncreaseKey(key, change)
    \/ \E key \in Keys : Remove(key)

Spec == Init /\ [][Next]_vars

NextWide ==
    \/ \E key \in WideKeys, value \in Values : Insert(key, value)
    \/ DeleteMin
    \/ \E key \in WideKeys, change \in Changes : DecreaseKey(key, change)
    \/ \E key \in WideKeys, change \in Changes : IncreaseKey(key, change)
    \/ \E key \in WideKeys : Remove(key)

WideSpec == InitWide /\ [][NextWide]_vars

(***************************************************************************)
(* Construction, copies and moves.  The queue pq is filled by the calls    *)
(* above; other is constructed, copy-constructed or move-constructed from  *)
(* pq when there is no second queue yet, and assigned from pq once there   *)
(* is one.  A moved-from pq holds no heap: the copy loop of a copy from it *)
(* would read through the null pointer, and no call is made on it.         *)
(***************************************************************************)
LifeCalls == 5

Capacities == 0..WideSize

InitLife ==
    /\ pq = PriorityQueue(MaxSize)
    /\ last = Call("new", 0, 0, TRUE)
    /\ status = "clean"
    /\ calls = LifeCalls
    /\ elems = NoElems
    /\ OneQueue

\* PriorityQueue other(maxSize), inside a try block
Construct(n) ==
    /\ Counted
    /\ other = PriorityQueue_moved
    /\ other' = IF PriorityQueue_throws(n) THEN other ELSE PriorityQueue(n)
    /\ last' = Call("construct", n, 0, ~PriorityQueue_throws(n))
    /\ UNCHANGED << pq, status, elems, ht, hb, stored, sum >>

\* PriorityQueue other(pq)
CopyConstruct ==
    /\ Counted
    /\ maxSize(pq) # 0
    /\ other = PriorityQueue_moved
    /\ other' = PriorityQueue_copy(pq)
    /\ last' = Call("copy", 0, 0, TRUE)
    /\ UNCHANGED << pq, status, elems, ht, hb, stored, sum >>

\* other = pq
CopyAssign ==
    /\ Counted
    /\ maxSize(pq) # 0
    /\ other # PriorityQueue_moved
    /\ other' = PriorityQueue_copyAssign(other, pq)
    /\ last' = Call("copyAssign", 0, 0, TRUE)
    /\ UNCHANGED << pq, status, elems, ht, hb, stored, sum >>

\* PriorityQueue other(std::move(pq))
MoveConstruct ==
    /\ Counted
    /\ maxSize(pq) # 0
    /\ other = PriorityQueue_moved
    /\ other' = PriorityQueue_move(pq).to
    /\ pq' = PriorityQueue_move(pq).from
    /\ last' = Call("move", 0, 0, TRUE)
    /\ UNCHANGED << status, elems, ht, hb, stored, sum >>

\* other = std::move(pq)
MoveAssign ==
    /\ Counted
    /\ maxSize(pq) # 0
    /\ other # PriorityQueue_moved
    /\ other' = PriorityQueue_moveAssign(other, pq).to
    /\ pq' = PriorityQueue_moveAssign(other, pq).from
    /\ last' = Call("moveAssign", 0, 0, TRUE)
    /\ UNCHANGED << status, elems, ht, hb, stored, sum >>

NextLife ==
    \/ \E key \in Keys, value \in Values : Insert(key, value)
    \/ DeleteMin
    \/ \E key \in Keys, change \in Changes : DecreaseKey(key, change)
    \/ \E key \in Keys, change \in Changes : IncreaseKey(key, change)
    \/ \E key \in Keys : Remove(key)
    \/ \E n \in Capacities : Construct(n)
    \/ CopyConstruct
    \/ CopyAssign
    \/ MoveConstruct
    \/ MoveAssign

LifeSpec == InitLife /\ [][NextLife]_vars

(***************************************************************************)
(* The hash table on its own: ht is constructed with a size its            *)
(* constructor accepts, and insert, update and remove are called on it.    *)
(* stored maps every key a call has put into the table, and no call has    *)
(* taken out again, to the value it was inserted or last updated with.  A  *)
(* call that returned false is not followed, as above.                     *)
(***************************************************************************)
HashCalls == 5

MaxTable == 7

HashKeyTop == 6

\* a key that collides with key 0 in a table of length 11, the length a
\* table of length 5 is rehashed to
FarKey == 11

HashKeys == (0..HashKeyTop) \cup {FarKey}

HashSizes == {n \in 1..MaxTable : ~HashTable_throws(n)}

InitHash ==
    /\ ht \in {HashTable(n) : n \in HashSizes}
    /\ stored = NoElems
    /\ hb = HashTable_moved
    /\ sum = HashTable_moved
    /\ pq = PriorityQueue_moved
    /\ other = PriorityQueue_moved
    /\ last = Call("new", 0, 0, TRUE)
    /\ status = "clean"
    /\ calls = HashCalls
    /\ elems = NoElems

\* A call of an operation of a hash table: it touches no queue.
HashCalled ==
    /\ Counted
    /\ UNCHANGED << pq, other, status, elems >>

\* ht.insert(key, value)
HashInsert(key, value) ==
    /\ HashCalled
    /\ ht' = HashTable_insert(ht, key, value).ht
    /\ last' = Call("insert", key, value, HashTable_insert(ht, key, value).ret)
    /\ stored' = IF HashTable_insert(ht, key, value).ret
                  THEN Inserted(stored, key, value) ELSE stored
    /\ UNCHANGED << hb, sum >>

\* ht.update(key, newValue)
HashUpdate(key, newValue) ==
    /\ HashCalled
    /\ ht' = HashTable_update(ht, key, newValue).ht
    /\ last' = Call("update", key, newValue, HashTable_update(ht, key, newValue).ret)
    /\ stored' = IF HashTable_update(ht, key, newValue).ret
                  THEN Inserted(stored, key, newValue) ELSE stored
    /\ UNCHANGED << hb, sum >>

\* ht.remove(key)
HashRemove(key) ==
    /\ HashCalled
    /\ ht' = HashTable_remove(ht, key).ht
    /\ last' = Call("remove", key, 0, HashTable_remove(ht, key).ret)
    /\ stored' = IF HashTable_remove(ht, key).ret
                  THEN Removed(stored, key) ELSE stored
    /\ UNCHANGED << hb, sum >>

NextHash ==
    \/ \E key \in HashKeys, value \in Values : HashInsert(key, value)
    \/ \E key \in HashKeys, value \in Values : HashUpdate(key, value)
    \/ \E key \in HashKeys : HashRemove(key)

HashSpec == InitHash /\ [][NextHash]_vars

(***************************************************************************)
(* The same table with removeAllByValue among its calls.                   *)
(***************************************************************************)
SweepCalls == 4

InitSweep ==
    /\ ht \in {HashTable(n) : n \in HashSizes}
    /\ stored = NoElems
    /\ hb = HashTable_moved
    /\ sum = HashTable_moved
    /\ pq = PriorityQueue_moved
    /\ other = PriorityQueue_moved
    /\ last = Call("new", 0, 0, TRUE)
    /\ status = "clean"
    /\ calls = SweepCalls
    /\ elems = NoElems

\* ht.removeAllByValue(value)
HashRemoveAllByValue(value) ==
    /\ HashCalled
    /\ ht' = HashTable_removeAllByValue(ht, value).ht
    /\ last' = Call("removeAllByValue", HashTable_removeAllByValue(ht, value).ret,
                    value, TRUE)
    /\ stored' = [k \in {x \in DOMAIN stored : stored[x] # value} |-> stored[k]]
    /\ UNCHANGED << hb, sum >>

NextSweep ==
    \/ \E key \in HashKeys, value \in Values : HashInsert(key, value)
    \/ \E key \in HashKeys, value \in Values : HashUpdate(key, value)
    \/ \E key \in HashKeys : HashRemove(key)
    \/ \E value \in Values : HashRemoveAllByValue(value)

SweepSpec == InitSweep /\ [][NextSweep]_vars

(***************************************************************************)
(* Two hash tables a = ht and b = hb, each filled by insert, update and    *)
(* remove, and then compared (a == b, a != b) or added (a + b).  The       *)
(* comparisons and the sum are const: they change neither table, so the    *)
(* calls that can follow one of them are those that can follow the state   *)
(* before it, and a run ends with them.  calls counts the other calls.     *)
(***************************************************************************)
PairCalls == 6

PairKeys == {0, 1, 5}

PairSizes == {5, 7}

Queries == {"equals", "notEquals", "plus"}

InitPair ==
    /\ ht \in {HashTable(n) : n \in PairSizes}
    /\ hb \in {HashTable(n) : n \in PairSizes}
    /\ stored = NoElems
    /\ sum = HashTable_moved
    /\ pq = PriorityQueue_moved
    /\ other = PriorityQueue_moved
    /\ last = Call("new", 0, 0, TRUE)
    /\ status = "clean"
    /\ calls = PairCalls
    /\ elems = NoElems

\* no comparison or sum has been made yet
Quiet == last.op \notin Queries

\* hb.insert(key, value)
HashInsertB(key, value) ==
    /\ HashCalled
    /\ Quiet
    /\ hb' = HashTable_insert(hb, key, value).ht
    /\ last' = Call("insertB", key, value, HashTable_insert(hb, key, value).ret)
    /\ UNCHANGED << ht, stored, sum >>

\* hb.update(key, newValue)
HashUpdateB(key, newValue) ==
    /\ HashCalled
    /\ Quiet
    /\ hb' = HashTable_update(hb, key, newValue).ht
    /\ last' = Call("updateB", key, newValue, HashTable_update(hb, key, newValue).ret)
    /\ UNCHANGED << ht, stored, sum >>

\* hb.remove(key)
HashRemoveB(key) ==
    /\ HashCalled
    /\ Quiet
    /\ hb' = HashTable_remove(hb, key).ht
    /\ last' = Call("removeB", key, 0, HashTable_remove(hb, key).ret)
    /\ UNCHANGED << ht, stored, sum >>

\* A comparison or a sum of the two tables.
Queried ==
    /\ status \in {"clean", "running"}
    /\ last.ret
    /\ Quiet
    /\ UNCHANGED << pq, other, status, elems, calls, ht, hb, stored >>

\* ht == hb
HashEquals ==
    /\ Queried
    /\ last' = Call("equals", 0, 0, HashTable_equals(ht, hb))
    /\ UNCHANGED sum

\* ht != hb
HashNotEquals ==
    /\ Queried
    /\ last' = Call("notEquals", 0, 0, HashTable_notEquals(ht, hb))
    /\ UNCHANGED sum

\* sum = ht + hb
HashPlus ==
    /\ Queried
    /\ sum' = HashTable_plus(ht, hb)
    /\ last' = Call("plus", 0, 0, TRUE)

NextPair ==
    \/ \E key \in PairKeys, value \in Values : Quiet /\ HashInsert(key, value)
    \/ \E key \in PairKeys, value \in Values : Quiet /\ HashUpdate(key, value)
    \/ \E key \in PairKeys : Quiet /\ HashRemove(key)
    \/ \E key \in PairKeys, value \in Values : HashInsertB(key, value)
    \/ \E key \in PairKeys, value \in Values : HashUpdateB(key, value)
    \/ \E key \in PairKeys : HashRemoveB(key)
    \/ HashEquals
    \/ HashNotEquals
    \/ HashPlus

PairSpec == InitPair /\ [][NextPair]_vars

(***************************************************************************)
(* Vocabulary of the properties.                                           *)
(***************************************************************************)
\* the live slots 1..elementCount and the keys they hold
Live(q) == 1..q.elementCount

LiveKeys(q) == {q.heap[i].key : i \in Live(q)}

\* the occupied buckets of the hash index
Buckets(q) == {b \in 0..(q.data.size - 1) : ~q.data.table[b].isEmpty}

\* the last call returned and no call so far has read memory the program
\* never wrote: every step of the run is the code's own, defined behaviour
Clean == status = "clean"

\* *get(key), the payload get(key) yields; NULL when get(key) is null
Payload(q, key) ==
    IF PriorityQueue_get(q, key) = NULL THEN NULL
    ELSE q.heap[PriorityQueue_get(q, key)].value

\* the call c is a decreaseKey or an increaseKey; the key it asks for
Rekey(c) == c.op \in {"decreaseKey", "increaseKey"}

NewKey(c) == IF c.op = "decreaseKey" THEN c.key - c.arg ELSE c.key + c.arg

\* the keys of elems the call c is aimed at
Target(c) ==
    IF c.op # "deleteMin" THEN {c.key}
    ELSE IF DOMAIN elems = {} THEN {}
    ELSE {Min(DOMAIN elems)}

\* the occupied buckets of a hash table, and the keys they hold
OccupiedBuckets(t) == {b \in 0..(t.size - 1) : ~t.table[b].isEmpty}

StoredKeys(t) == {t.table[b].key : b \in OccupiedBuckets(t)}

\* the table lengths after each of the inserts of keys, in turn, into t
RECURSIVE SizesAfter(_, _)
SizesAfter(t, keys) ==
    IF keys = << >> THEN << >>
    ELSE LET n == HashTable_insert(t, Head(keys), 1).ht
         IN  << tableSize(n) >> \o SizesAfter(n, Tail(keys))

\* how many buckets of t hold the pair (key, value); a and b hold the same
\* multiset of pairs
Copies(t, key, value) ==
    Cardinality({b \in OccupiedBuckets(t) :
                    t.table[b].key = key /\ t.table[b].value = value})

SameMultiset(a, b) ==
    \A key \in StoredKeys(a) \cup StoredKeys(b) : \A value \in Values :
        Copies(a, key, value) = Copies(b, key, value)

\* *t.get(key), the value get(key) yields; NULL when get(key) is null
ValueOf(t, key) ==
    IF HashTable_get(t, key) = NULL THEN NULL
    ELSE Deref(t, HashTable_get(t, key))

\* the evaluations of percolateDown's loop test in the call c on the queue q
StepsOf(q, c) ==
    LET e == percolateDownCall(q, c)
    IN  percolateDownSteps(e.q, e.index, e.q.elementCount <= 2)

\* the number of elements percolateDown sees in the call c on the queue q
SeenBy(q, c) == percolateDownCall(q, c).q.elementCount

\* the buckets of t on the probe sequence of key: (key mod length + i*i) mod
\* length for i in 0..length-1
ProbeSequence(t, key) ==
    {((key % t.size) + (i * i)) % t.size : i \in 0..(t.size - 1)}

\* the call c on the queue q gets as far as its call of percolateDown
Proceeds(q, c) ==
    IF c.op = "deleteMin" THEN q.elementCount # 0
    ELSE IF c.op = "increaseKey"
    THEN PriorityQueue_increaseKey(q, c.key, c.arg).ret
    ELSE HashTable_get(q.data, c.key) # NULL /\ q.elementCount > 0

\* the pairs the call c on the queue q can read from the cells that hold no
\* value written by the program
Garbage(q, c) ==
    [FirstReads(TRUE, q, percolateDownCall(q, c).index, SeenBy(q, c))
        -> GarbagePairs]

\* p is a prime number; the smallest prime that is at least n (there is one
\* up to 2n, for n >= 1)
Prime(p) == p >= 2 /\ ~\E d \in 2..(p - 1) : p % d = 0

SmallestPrimeFrom(n) == Min({p \in n..(2 * n) : Prime(p)})

(***************************************************************************)
(* C1.  After every public operation returns, the hash index and the live  *)
(* slots of the heap are in bijection: data.get(heap[i].key) yields i for  *)
(* every live slot i, and every key of the hash index names a live slot    *)
(* that holds that key.                                                    *)
(***************************************************************************)
IndexBijection ==
    Clean =>
        /\ \A i \in Live(pq) : PriorityQueue_get(pq, pq.heap[i].key) = i
        /\ \A b \in Buckets(pq) :
              /\ pq.data.table[b].value \in Live(pq)
              /\ pq.heap[pq.data.table[b].value].key = pq.data.table[b].key

(***************************************************************************)
(* C2.  After every public operation returns (no key arithmetic having     *)
(* overflowed), every live slot i >= 2 holds a key no smaller than the key *)
(* of its parent slot i/2.                                                 *)
(***************************************************************************)
HeapOrder ==
    Clean => \A i \in 2..pq.elementCount : pq.heap[parent(i)].key <= pq.heap[i].key

(***************************************************************************)
(* C3.  getMinKey() yields the smallest key among the elements inserted    *)
(* and not yet removed.                                                    *)
(***************************************************************************)
MinKeyIsSmallest ==
    (Clean /\ DOMAIN elems # {}) =>
        pq.heap[PriorityQueue_getMinKey(pq)].key = Min(DOMAIN elems)

(***************************************************************************)
(* C4.  No two live slots of the heap hold the same key.                   *)
(***************************************************************************)
UniqueKeys ==
    Clean => \A i, j \in Live(pq) : i # j => pq.heap[i].key # pq.heap[j].key

(***************************************************************************)
(* C5.  A call that returns false leaves the queue exactly as it was:      *)
(* numElements(), the key and payload of every heap slot, and the contents *)
(* of the hash index.                                                      *)
(***************************************************************************)
FailureIsNoOp ==
    [][(~last'.ret /\ status' # "aborted") => pq' = pq]_vars

\* a call has failed on a queue that holds elements and is not full: an
\* insert of a key that is present, or a key change that names no key of
\* the queue or that would collide
FailureSeen ==
    /\ ~last.ret
    /\ status # "aborted"
    /\ last.op \in {"insert", "decreaseKey", "increaseKey"}
    /\ pq.elementCount > 0
    /\ pq.elementCount < maxSize(pq)

(***************************************************************************)
(* C6.  A successful insert(k, v) followed immediately by get(k) yields v; *)
(* a successful insert(k, v) followed by remove(k) returns true from       *)
(* remove, lowers numElements() by one, and leaves get(k) absent.          *)
(***************************************************************************)
RoundTrip ==
    [][/\ (Clean' /\ last'.op = "insert" /\ last'.ret)
            => Payload(pq', last'.key) = last'.arg
       /\ (/\ Clean /\ last.op = "insert" /\ last.ret
           /\ last'.op = "remove" /\ last'.key = last.key
           /\ FirstReads(TRUE, pq, IndexOf(pq, last.key), pq.elementCount) = {})
            => /\ status' # "aborted"
               /\ last'.ret
               /\ pq'.elementCount = pq.elementCount - 1
               /\ PriorityQueue_get(pq', last.key) = NULL]_vars

(***************************************************************************)
(* C7.  A successful deleteMin, remove, decreaseKey or increaseKey changes *)
(* only the element it is aimed at: every other key of the queue that get  *)
(* yielded with the payload it was inserted with before the call is        *)
(* yielded with that payload after it.                                     *)
(***************************************************************************)
FrameOfRemovalAndRekeying ==
    [][(/\ Clean /\ Clean' /\ last'.ret
        /\ last'.op \in {"deleteMin", "remove", "decreaseKey", "increaseKey"})
         => \A k \in DOMAIN elems \ Target(last') :
               Payload(pq, k) = elems[k] => Payload(pq', k) = elems[k]]_vars

(***************************************************************************)
(* C8.  decreaseKey(key, change) and increaseKey(key, change) return false *)
(* exactly when change = 0, or key is not in the queue, or the resulting   *)
(* key is already in the queue.                                            *)
(***************************************************************************)
KeyChangeFailsExactlyWhen ==
    [][(Clean /\ Clean' /\ Rekey(last'))
         => (~last'.ret <=> \/ last'.arg = 0
                            \/ last'.key \notin DOMAIN elems
                            \/ NewKey(last') \in DOMAIN elems)]_vars

(***************************************************************************)
(* C9.  After decreaseKey(k, c) or increaseKey(k, c) returns true, get(k)  *)
(* is absent, get of the new key yields the payload get(k) yielded before  *)
(* the call, and numElements() is unchanged.                               *)
(***************************************************************************)
KeyChangeEffect ==
    [][(Clean /\ Clean' /\ Rekey(last') /\ last'.ret)
         => /\ PriorityQueue_get(pq', last'.key) = NULL
            /\ Payload(pq', NewKey(last')) = Payload(pq, last'.key)
            /\ pq'.elementCount = pq.elementCount]_vars

(***************************************************************************)
(* C10.  getMinKey() and getMinValue() return a null pointer whenever      *)
(* numElements() = 0.                                                      *)
(***************************************************************************)
MinOfEmptyIsNull ==
    (Clean /\ numElements(pq) = 0)
        => /\ PriorityQueue_getMinKey(pq) = NULL
           /\ PriorityQueue_getMinValue(pq) = NULL

(***************************************************************************)
(* C11.  Copy makes the target identical to the source: after a copy       *)
(* construction or a copy assignment from pq, other has the maxSize(), the *)
(* numElements(), the heap contents and the hash index contents of pq,     *)
(* whatever capacity and contents other had before, and pq is unchanged.   *)
(***************************************************************************)
CopyIsIdentical ==
    [][last'.op \in {"copy", "copyAssign"} =>
          /\ maxSize(other') = maxSize(pq)
          /\ numElements(other') = numElements(pq)
          /\ \A i \in Live(pq) : other'.heap[i] = pq.heap[i]
          /\ other'.data = pq.data
          /\ pq' = pq]_vars

(***************************************************************************)
(* C12.  Capacity bound: in every state reachable by insert, deleteMin,    *)
(* remove, decreaseKey and increaseKey on a queue constructed with         *)
(* maxSize >= 1, numElements() <= maxSize(), and maxSize() is the capacity *)
(* the queue was constructed with.                                         *)
(***************************************************************************)
CapacityBound ==
    /\ numElements(pq) <= maxSize(pq)
    /\ maxSize(pq) = MaxSize

\* an insert of a key the queue does not hold was rejected by a full queue
FullQueueRejects ==
    /\ last.op = "insert"
    /\ ~last.ret
    /\ status # "aborted"
    /\ numElements(pq) = maxSize(pq)
    /\ last.key \notin LiveKeys(pq)

(***************************************************************************)
(* C13.  Move leaves the source empty: after a move construction or a move *)
(* assignment from pq, other has the former maxSize(), numElements() and   *)
(* elements (live heap slots and hash index) of pq, and pq has             *)
(* maxSize() = 0 and numElements() = 0.                                    *)
(***************************************************************************)
MoveLeavesSourceEmpty ==
    [][last'.op \in {"move", "moveAssign"} =>
          /\ maxSize(other') = maxSize(pq)
          /\ numElements(other') = numElements(pq)
          /\ \A i \in Live(pq) : other'.heap[i] = pq.heap[i]
          /\ other'.data = pq.data
          /\ maxSize(pq') = 0
          /\ numElements(pq') = 0]_vars

\* a queue that holds elements has been move-assigned to a second queue
MovedNonEmpty ==
    /\ last.op = "moveAssign"
    /\ numElements(other) >= 2
    /\ maxSize(other) = MaxSize
    /\ maxSize(pq) = 0
    /\ numElements(pq) = 0

(***************************************************************************)
(* C14.  Construction of PriorityQueue(maxSize) fails with an error when   *)
(* maxSize = 0; for every maxSize >= 1 it succeeds with an empty queue     *)
(* (numElements() = 0, maxSize() = maxSize) whose hash index is empty and  *)
(* has as its length the smallest prime >= maxSize.                        *)
(***************************************************************************)
ConstructionContract ==
    last.op = "construct" =>
        IF last.key = 0 THEN ~last.ret /\ other = PriorityQueue_moved
        ELSE /\ last.ret
             /\ numElements(other) = 0
             /\ maxSize(other) = last.key
             /\ other.data.size = SmallestPrimeFrom(last.key)
             /\ other.data.elementCount = 0
             /\ Buckets(other) = {}

\* a queue has been constructed with a capacity that is not prime
CompositeCapacityConstructed ==
    /\ last.op = "construct"
    /\ last.ret
    /\ ~Prime(last.key)
    /\ maxSize(other) > 1
    /\ other.data.size > maxSize(other)

(***************************************************************************)
(* C15.  Hash index key uniqueness: after any sequence of HashTable        *)
(* insert, update, remove and removeAllByValue, no two occupied buckets    *)
(* hold the same key; insert(key, value) returns false and changes nothing *)
(* whenever key is stored in an occupied bucket, wherever earlier removals *)
(* have left empty buckets.                                                *)
(***************************************************************************)
HashKeyUniqueness ==
    [][/\ \A a, b \in OccupiedBuckets(ht') :
              a # b => ht'.table[a].key # ht'.table[b].key
       /\ (last'.op = "insert" /\ last'.key \in StoredKeys(ht))
              => (~last'.ret /\ ht' = ht)]_vars

(***************************************************************************)
(* C16.  Load factor: after any HashTable insert that returns true, in any *)
(* sequence of insert and remove calls on a table of any prime initial     *)
(* size, numElements() / tableSize() < 0.5.                                *)
(***************************************************************************)
LoadFactor ==
    (last.op = "insert" /\ last.ret) =>
        2 * HashTable_numElements(ht) < tableSize(ht)

\* an insert has succeeded and left the table one element short of half
\* its length
AlmostHalfFull ==
    /\ last.op = "insert"
    /\ last.ret
    /\ HashTable_numElements(ht) >= 3
    /\ 2 * (HashTable_numElements(ht) + 1) >= tableSize(ht)

(***************************************************************************)
(* C17.  Growth policy: an insert rehashes exactly when it succeeds and    *)
(* the element count including the new element is at least half the table  *)
(* length; the rehash replaces the length L by the smallest prime >= 2L,   *)
(* once; no other call changes the length, so the length is always a       *)
(* prime.  A table of length 7 that receives the keys 2, 7, 5, 9, 8, 6     *)
(* rehashes once, on key 9, to length 17.                                  *)
(***************************************************************************)
GrowthPolicy ==
    [][/\ Prime(tableSize(ht)) /\ Prime(tableSize(ht'))
       /\ IF last'.op = "insert" /\ last'.ret
             /\ 2 * (HashTable_numElements(ht) + 1) >= tableSize(ht)
          THEN tableSize(ht') = SmallestPrimeFrom(2 * tableSize(ht))
          ELSE tableSize(ht') = tableSize(ht)
       /\ SizesAfter(HashTable(MaxTable), << 2, 7, 5, 9, 8, 6 >>)
             = << 7, 7, 7, 17, 17, 17 >>]_vars

\* the table of length 7 has rehashed on its fourth element
GrownOnFourth ==
    /\ last.op = "insert"
    /\ last.ret
    /\ HashTable_numElements(ht) = 4
    /\ tableSize(ht) = 17

(***************************************************************************)
(* C18.  Rehash correctness: after any sequence of HashTable inserts,      *)
(* updates and removes, get yields, for every key that was successfully    *)
(* inserted and not removed, the value the key was inserted or last        *)
(* updated with, across rehashes.                                          *)
(***************************************************************************)
RehashCorrectness ==
    \A k \in DOMAIN stored :
        /\ HashTable_get(ht, k) # NULL
        /\ Deref(ht, HashTable_get(ht, k)) = stored[k]

(***************************************************************************)
(* C19.  Hash table equality: for any two tables reachable by insert,      *)
(* update and remove, a == b holds if and only if a and b hold the same    *)
(* multiset of (key, value) pairs, whatever their bucket layouts and       *)
(* lengths, and a != b is the negation of a == b.                          *)
(***************************************************************************)
EqualityIsSameMultiset ==
    /\ last.op = "equals" => (last.ret <=> SameMultiset(ht, hb))
    /\ last.op = "notEquals" => (last.ret <=> ~HashTable_equals(ht, hb))

(***************************************************************************)
(* C20.  Hash table union, left wins: for any two reachable tables a and   *)
(* b, a + b leaves a and b unchanged and yields a table in which get(k)    *)
(* yields a's value for every key k stored in a, and b's value for every   *)
(* key stored only in b.                                                   *)
(***************************************************************************)
UnionLeftWins ==
    [][last'.op = "plus" =>
          /\ ht' = ht
          /\ hb' = hb
          /\ \A k \in StoredKeys(ht) : ValueOf(sum', k) = ValueOf(ht, k)
          /\ \A k \in StoredKeys(hb) \ StoredKeys(ht) :
                ValueOf(sum', k) = ValueOf(hb, k)]_vars

(***************************************************************************)
(* C21.  percolateDown considers exactly the existing children: at every   *)
(* evaluation of its loop test it reads and swaps only children whose slot *)
(* is <= numElements(), a left child at slot numElements() is examined,    *)
(* and no slot beyond numElements() is swapped with, for heaps of every    *)
(* size.                                                                   *)
(***************************************************************************)
OnlyExistingChildren ==
    [][(/\ Clean /\ Clean' /\ last'.ret
        /\ last'.op \in {"deleteMin", "increaseKey", "remove"})
         => \A n \in DOMAIN StepsOf(pq, last') :
               LET step == StepsOf(pq, last')[n]
               IN  /\ step.considers => rightChild(step.index) <= SeenBy(pq, last')
                   /\ step.smallest <= SeenBy(pq, last')
                   /\ leftChild(step.index) <= SeenBy(pq, last') => step.considers]_vars

(***************************************************************************)
(* C22.  Per-key lifecycle: a key that is not among the live elements      *)
(* becomes live only as the key of a successful insert or as the resulting *)
(* key of a successful decreaseKey or increaseKey; a live key stops being  *)
(* live only through a successful deleteMin that removes it as the         *)
(* minimum, a successful remove of it, or a successful key change of it.   *)
(***************************************************************************)
KeyLifecycle ==
    [][(Clean /\ Clean') =>
          /\ \A k \in LiveKeys(pq') \ LiveKeys(pq) :
                /\ last'.ret
                /\ \/ last'.op = "insert" /\ last'.key = k
                   \/ Rekey(last') /\ NewKey(last') = k
          /\ \A k \in LiveKeys(pq) \ LiveKeys(pq') :
                /\ last'.ret
                /\ \/ last'.op = "deleteMin" /\ k = Min(LiveKeys(pq))
                   \/ last'.op = "remove" /\ last'.key = k
                   \/ Rekey(last') /\ last'.key = k]_vars

(***************************************************************************)
(* C23.  Probe reachability: in every state reachable by HashTable insert, *)
(* update, remove and removeAllByValue, across rehashes and after removals *)
(* have emptied buckets in the middle of a probe chain, every occupied     *)
(* bucket holding key k is at position (k mod length + i*i) mod length for *)
(* some i in 0..length-1, and get(k), update(k, v) and remove(k) find k.   *)
(***************************************************************************)
ProbeReachability ==
    \A b \in OccupiedBuckets(ht) :
        /\ b \in ProbeSequence(ht, ht.table[b].key)
        /\ HashTable_get(ht, ht.table[b].key) # NULL
        /\ \A v \in Values : HashTable_update(ht, ht.table[b].key, v).ret
        /\ HashTable_remove(ht, ht.table[b].key).ret

\* a rehashed table holds a key away from its home bucket, which a removal
\* has emptied
ChainBroken ==
    /\ tableSize(ht) > MaxTable
    /\ last.op \in {"remove", "removeAllByValue"}
    /\ \E b \in OccupiedBuckets(ht) :
          /\ b # ht.table[b].key % tableSize(ht)
          /\ ht.table[ht.table[b].key % tableSize(ht)].isEmpty

(***************************************************************************)
(* C24.  remove never dereferences a failed lookup: in every reachable     *)
(* state, every key heap[index].key that the final loop of remove looks up *)
(* is present in the hash index, so *data.get(heap[index].key) is never    *)
(* applied to a null result.                                               *)
(***************************************************************************)
SweepFindsEveryKey ==
    [][(/\ Clean
        /\ last'.op = "remove"
        /\ HashTable_get(pq.data, last'.key) # NULL
        /\ pq.elementCount > 0
        /\ FirstReads(TRUE, pq, IndexOf(pq, last'.key), pq.elementCount) = {})
         => ~PriorityQueue_remove(pq, last'.key).nullDeref]_vars

(***************************************************************************)
(* C25.  Heap array bounds: for every sequence of insert, deleteMin,       *)
(* remove, decreaseKey and increaseKey, no operation reads or writes a     *)
(* heap array slot with index greater than maxSize() (the array has the    *)
(* slots 0..maxSize): insert writes no such slot, and percolateDown reads  *)
(* and swaps no such child.                                                *)
(***************************************************************************)
HeapArrayBounds ==
    [][/\ (last'.op = "insert" /\ last'.ret) => pq'.elementCount <= maxSize(pq)
       /\ (/\ Clean
           /\ last'.op \in {"deleteMin", "increaseKey", "remove"}
           /\ Proceeds(pq, last'))
            => \A g \in Garbage(pq, last') :
                  \A n \in DOMAIN StepsOf(With(pq, g), last') :
                     LET step == StepsOf(With(pq, g), last')[n]
                     IN  /\ step.considers => rightChild(step.index) <= maxSize(pq)
                         /\ step.smallest <= maxSize(pq)]_vars

====
